---- MODULE Spec2Model ----
(***************************************************************************)
(* Model of the outbound request governor of img-url:                      *)
(*   - RateLimiter (queue, drain loop, spacing)   Gemini utilities         *)
(*   - withRetry / isRateLimitError               Gemini utilities         *)
(*   - generatePromptForImage                     Gemini utilities         *)
(*   - usePromptGeneration.generatePrompts        hooks/usePromptGeneration*)
(*   - generateOpenRouterPrompt (response clean-up) utils/openRouter        *)
(*   - useUrls (the URL list of the page)          hooks/useUrls            *)
(* Time is a simulated clock `now` (milliseconds).  Every handler runs to  *)
(* its next suspension point (timer or network call) in one step, as the   *)
(* single-threaded event loop does.                                        *)
(***************************************************************************)
EXTENDS Integers, Sequences, FiniteSets, TLC

VARIABLES
    now,              \* Date.now() of the simulated clock
    queue,            \* RateLimiter.queue: sequence of entry ids
    isProcessing,     \* RateLimiter.isProcessing
    lastRequestTime,  \* RateLimiter.lastRequestTime
    config,           \* RateLimiter.config
    entries,          \* every QueueItem ever enqueued, with its execute() state
    prompts,          \* hook state: Map<url, PromptResult>
    progress,         \* hook state: ProgressInfo
    loading,          \* hook state: loading
    rateLimitConfig,  \* hook state: rateLimitConfig
    runs,             \* one record per generatePrompts call
    releases,         \* history: <<entry, time>> of every release of the drain loop
    adapterCalls,     \* history: number of generatePromptInternal calls per url
    raw,              \* generateOpenRouterPrompt: the content of the response
    content,          \* generateOpenRouterPrompt: the local variable `content`
    stage,            \* generateOpenRouterPrompt: none | received | cleaned | returned
    prev,             \* history: `content` before the last step
    urlList,          \* useUrls state: urls
    urlError,         \* useUrls state: error
    pasting           \* useUrls: the pasteFromClipboard calls awaiting readText

\* the state of the two utilities of the page that the governor does not touch
pageVars == <<raw, content, stage, prev, urlList, urlError, pasting>>

vars == <<now, queue, isProcessing, lastRequestTime, config, entries, prompts,
          progress, loading, rateLimitConfig, runs, releases, adapterCalls,
          pageVars>>

----------------------------------------------------------------------------
(* Bounds of the model *)

StartTime == 4000
MaxTime == 7000
MaxEntries == 3
RetryEntries == 1
ProviderEntries == 2
ConfigEntries == 2
LiveEntries == 2
MaxText == 4
MaxUrls == 3
MaxClip == 2
MaxRetriesBound == 2

TickSteps == {1000}
Urls == {"u1", "u2"}

----------------------------------------------------------------------------
(* Helpers *)

Max(a, b) == IF a >= b THEN a ELSE b
Min(a, b) == IF a <= b THEN a ELSE b

NoVal == <<>>

RECURSIVE FoldSeq(_, _, _)
\* left fold of Op over the sequence s, starting from acc
FoldSeq(Op(_, _), acc, s) ==
    IF s = <<>> THEN acc ELSE FoldSeq(Op, Op(acc, Head(s)), Tail(s))

----------------------------------------------------------------------------
(* Rate limit policies *)

\* DEFAULT_RATE_LIMIT_CONFIG; requestsPerSecond 0.5 is the fraction 1/2
DEFAULT_RATE_LIMIT_CONFIG ==
    [requestsPerSecond |-> [num |-> 1, den |-> 2], delayMs |-> 2000,
     maxRetries |-> 3, initialBackoffMs |-> 2000, maxBackoffMs |-> 30000,
     backoffMultiplier |-> 2]

\* FREE_MODEL_RATE_LIMIT of the OpenRouter adapter; 10 / 60 requests per second
FREE_MODEL_RATE_LIMIT ==
    [requestsPerSecond |-> [num |-> 10, den |-> 60], delayMs |-> 6000,
     maxRetries |-> 3, initialBackoffMs |-> 2000, maxBackoffMs |-> 30000,
     backoffMultiplier |-> 2]

\* an option that is undefined
Undefined == [undefined |-> TRUE]

Policy(num, den, d, r, i, m, k) ==
    [requestsPerSecond |-> [num |-> num, den |-> den], delayMs |-> d,
     maxRetries |-> r, initialBackoffMs |-> i, maxBackoffMs |-> m,
     backoffMultiplier |-> k]

\* the policies a run is started with: backoffMultiplier >= 1,
\* maxBackoffMs >= initialBackoffMs, delayMs > 0
Policies ==
    { Policy(1, 1, 2000, 1, 1000, 2000, 2),
      Policy(1, 2, 1000, 0, 1000, 1000, 1) }

\* the policies the retry executor is exercised with
RetryPolicies ==
    { Policy(1, 1, 1000, r, 1000, m, k) :
        r \in {0, MaxRetriesBound}, m \in {1000, 2000, 4000}, k \in {1, 2, 3} }

----------------------------------------------------------------------------
(* Errors and their classification *)

\* An error message is a sequence of fragments; includes() of the source is
\* membership of a fragment after toLowerCase().
ToLower(w) ==
    CASE w = "Resource exhausted" -> "resource exhausted"
      [] w = "Too Many Requests" -> "too many requests"
      [] w = "Rate limit" -> "rate limit"
      [] w = "Failed to fetch" -> "failed to fetch"
      [] w = "Queue cleared" -> "queue cleared"
      [] OTHER -> w

Includes(msg, pat) == \E i \in 1..Len(msg) : ToLower(msg[i]) = pat

\* isRateLimitError of the source, on the message of an Error; the variant
\* takes every Error for a rate-limit error
isRateLimitError_AnyError(msg) == TRUE

isRateLimitError(msg) ==
    \/ Includes(msg, "429")
    \/ Includes(msg, "rate limit")
    \/ Includes(msg, "resource exhausted")
    \/ Includes(msg, "too many requests")

QueueCleared == <<"Queue cleared">>

\* what one call of generatePromptInternal can produce
ErrMessages == { <<"429", "Too Many Requests">>, <<"Resource exhausted">>,
                 <<"Failed to fetch">> }
\* a text is a sequence of fragments, the empty string the empty sequence
Texts == { <<"a red bicycle">> }
EmptyText == <<>>
OutcomesOf(msgs) == [ok : {TRUE}, val : Texts] \cup [ok : {FALSE}, val : msgs]
Outcomes == OutcomesOf(ErrMessages)
\* one rate-limit signal and one other failure
OutcomesShort == OutcomesOf({ <<"429", "Too Many Requests">>, <<"Failed to fetch">> })

----------------------------------------------------------------------------
(* The machine state handled by the operators below: every variable but the *)
(* clock and the hook's rateLimitConfig, as one record.                     *)

Cur ==
    [queue |-> queue, isProcessing |-> isProcessing,
     lastRequestTime |-> lastRequestTime, config |-> config,
     entries |-> entries, prompts |-> prompts, progress |-> progress,
     loading |-> loading, runs |-> runs, releases |-> releases,
     adapterCalls |-> adapterCalls]

Commit(m) ==
    \E next \in {m} :
        /\ queue' = next.queue
        /\ isProcessing' = next.isProcessing
        /\ lastRequestTime' = next.lastRequestTime
        /\ config' = next.config
        /\ entries' = next.entries
        /\ prompts' = next.prompts
        /\ progress' = next.progress
        /\ loading' = next.loading
        /\ runs' = next.runs
        /\ releases' = next.releases
        /\ adapterCalls' = next.adapterCalls

NoJob == [status |-> "absent", prompt |-> EmptyText, error |-> NoVal]

\* a QueueItem with the state of its execute() closure
NewEntry(url, run, cfg) ==
    [url |-> url, run |-> run, cfg |-> cfg,
     st |-> "queued",          \* queued | held | calling | backoff | done | cleared
     fut |-> "pending",        \* the promise enqueue returned
     val |-> NoVal,            \* its value or its error message
     attempt |-> 0, backoffMs |-> 0, lastError |-> NoVal, wakeAt |-> 0,
     fn |-> "generatePromptInternal",   \* the adapter execute() calls
     calls |-> 0,              \* history: calls of fn made by withRetry
     callTimes |-> <<>>,       \* history: the time of each of these calls
     onRetryLog |-> <<>>,      \* history: <<attempt, delayMs>> of each onRetry call
     waits |-> <<>>,           \* history: duration of each backoff wait
     outs |-> <<>>,            \* history: outcome of each call of fn
     cancelAs |-> "none",      \* history: where clearQueue found the entry before
                               \*   its action began: "queued" or "held"
     cancelIdle |-> FALSE,     \* history: ... and no action was executing then
     cancelLeft |-> 0,         \* history: ... and the queue size it left
     wasCompleted |-> FALSE,   \* history: the job was completed when the run began
     wasFailed |-> FALSE,      \* history: the job had failed when the run began
     provider |-> "google",    \* history: the provider selected when the run began
     started |-> NoJob,        \* history: the job as the run left it before the await
     settles |-> 0,            \* history: times the promise was resolved or rejected
     jobAtSettle |-> NoJob]    \* history: the job as the settling of the entry left it

----------------------------------------------------------------------------
(* usePromptGeneration: the handlers of one job *)

\* Math.round(x) for x >= 0
Round(n, d) == (2 * n + d) \div (2 * d)

\* await Promise.all(promises): all `total` job promises have settled; the
\* variant resolves with the first one, as Promise.race does
RunResolves_First(c, total) == c >= 1

RunResolves(c, total) == c = total

\* updateProgress with the counter published before it is incremented
updateProgress_Stale(m, r) ==
    LET c == m.runs[r].completedCount + 1
        total == m.runs[r].total
        fin == RunResolves(c, total)
    IN [m EXCEPT !.runs[r].completedCount = c,
                 !.runs[r].done = fin,
                 !.progress = [current |-> c - 1, total |-> total,
                               percentage |-> (2 * (c - 1) * 100 + total) \div (2 * total)],
                 !.loading = IF fin THEN FALSE ELSE @]

\* updateProgress, and the end of generatePrompts once Promise.all resolves
updateProgress(m, r) ==
    LET c == m.runs[r].completedCount + 1
        total == m.runs[r].total
        fin == RunResolves(c, total)
    IN [m EXCEPT !.runs[r].completedCount = c,
                 !.runs[r].done = fin,
                 !.progress = [current |-> c, total |-> total,
                               percentage |-> Round(c * 100, total)],
                 !.loading = IF fin THEN FALSE ELSE @]

\* onRetry callback of generatePrompts; the variant records the reason and
\* leaves the status as it is
onRetry_KeepStatus(m, e, delayMs) ==
    LET url == m.entries[e].url
        current == m.prompts[url]
    IN IF current.status # "absent"
       THEN [m EXCEPT !.prompts[url] =
                [current EXCEPT !.error = <<"Rate limit hit. Retrying in",
                                            ToString(Round(delayMs, 1000)), "s...">>]]
       ELSE m

onRetry(m, e, delayMs) ==
    LET url == m.entries[e].url
        current == m.prompts[url]
    IN IF current.status # "absent"
       THEN [m EXCEPT !.prompts[url] =
                [current EXCEPT !.status = "retrying",
                                !.error = <<"Rate limit hit. Retrying in",
                                            ToString(Round(delayMs, 1000)), "s...">>]]
       ELSE m

\* continuation of `await generatePromptForImage` in generatePrompts: the
\* try branch, the catch branch (it takes every rejection), then finally
JobSettled(m, e) ==
    LET url == m.entries[e].url
        m1 == IF m.entries[e].fut = "resolved"
              THEN [m EXCEPT !.prompts[url] =
                       [status |-> "completed", prompt |-> m.entries[e].val,
                        error |-> NoVal]]
              ELSE [m EXCEPT !.prompts[url] =
                       [status |-> "error", prompt |-> EmptyText,
                        error |-> m.entries[e].val]]
        m2 == [m1 EXCEPT !.entries[e].jobAtSettle = m1.prompts[url]]
    IN updateProgress(m2, m.entries[e].run)

----------------------------------------------------------------------------
(* RateLimiter and withRetry *)

\* minDelay of processQueue; the variant takes the smaller of the two delays
MinDelay_Min(cfg) ==
    Min(cfg.delayMs, (1000 * cfg.requestsPerSecond.den) \div cfg.requestsPerSecond.num)

MinDelay(cfg) ==
    Max(cfg.delayMs, (1000 * cfg.requestsPerSecond.den) \div cfg.requestsPerSecond.num)

\* one call of fn = generatePromptInternal by withRetry
CallFn(m, e) ==
    [m EXCEPT !.entries[e].st = "calling",
              !.entries[e].calls = @ + 1,
              !.entries[e].callTimes = Append(@, now),
              !.adapterCalls[m.entries[e].url] = @ + 1]

\* item.execute(): withRetry up to its first call of fn
StartExecute(m, e) ==
    CallFn([m EXCEPT !.entries[e].lastError = NoVal,
                     !.entries[e].backoffMs = m.entries[e].cfg.initialBackoffMs,
                     !.entries[e].attempt = 0], e)

\* processQueue after the spacing wait: stamp the release, start the action
Release(m, e) ==
    StartExecute([m EXCEPT !.lastRequestTime = now,
                           !.releases = Append(@, <<e, now>>)], e)

\* the loop of processQueue found the queue empty: this.isProcessing = false;
\* the variant leaves the flag set
DrainEnds_KeepFlag(m) == m

DrainEnds(m) == [m EXCEPT !.isProcessing = FALSE]

\* one iteration of the while loop of processQueue, up to its first await
LoopIter(m) ==
    IF Len(m.queue) > 0
    THEN LET item == Head(m.queue)
             m1 == [m EXCEPT !.queue = Tail(@)]
             timeSinceLastRequest == now - m.lastRequestTime
             delay == Max(0, MinDelay(m.config) - timeSinceLastRequest)
         IN IF delay > 0
            THEN [m1 EXCEPT !.entries[item].st = "held",
                            !.entries[item].wakeAt = now + delay]
            ELSE Release(m1, item)
    ELSE DrainEnds(m)

\* the guard of processQueue; the variant does not test isProcessing
ProcessQueueReturnsEarly_NoFlag(m) == Len(m.queue) = 0

ProcessQueueReturnsEarly(m) == m.isProcessing \/ Len(m.queue) = 0

processQueue(m) ==
    IF ProcessQueueReturnsEarly(m)
    THEN m
    ELSE LoopIter([m EXCEPT !.isProcessing = TRUE])

\* this.queue.push(item); the variant is unshift
Push_Front(q, e) == <<e>> \o q

Push(q, e) == Append(q, e)

enqueue(m, e) == processQueue([m EXCEPT !.queue = Push(@, e)])

\* try { await item.execute() ... } catch { item.reject(...) }: the loop goes
\* on to its next iteration either way; in the variant a failure ends it
DrainOn_StopOnFailure(m, ok) == IF ok THEN LoopIter(m) ELSE m

DrainOn(m, ok) == LoopIter(m)

\* the action of entry e settled: item.resolve / item.reject, the job's
\* continuation, and the drain loop going on to its next iteration
Settle(m, e, ok, val) ==
    LET m1 == [m EXCEPT !.entries[e].st = "done",
                        !.entries[e].fut = IF ok THEN "resolved" ELSE "rejected",
                        !.entries[e].val = val,
                        !.entries[e].settles = @ + 1]
    IN JobSettled(DrainOn(m1, ok), e)

\* the for-loop condition of withRetry; the variant stops one attempt early
LoopContinues_Strict(en) == en.attempt < en.cfg.maxRetries

LoopContinues(en) == en.attempt <= en.cfg.maxRetries

\* "Don't wait after the last attempt"; the variant waits after it too
ShouldWait_Always(en) == en.attempt <= en.cfg.maxRetries

ShouldWait(en) == en.attempt < en.cfg.maxRetries

\* "Exponential backoff with cap"; the variant has no cap
NextBackoff_NoCap(en) == en.backoffMs * en.cfg.backoffMultiplier

NextBackoff(en) ==
    Min(en.backoffMs * en.cfg.backoffMultiplier, en.cfg.maxBackoffMs)

\* lastError = the error just caught
CaughtError(en, err) == err

\* attempt++ and the loop test; the throw after the loop when it fails
NextAttempt(m, e) ==
    LET m1 == [m EXCEPT !.entries[e].attempt = @ + 1]
    IN IF LoopContinues(m1.entries[e])
       THEN CallFn(m1, e)
       ELSE Settle(m1, e, FALSE, m1.entries[e].lastError)

\* withRetry: the call of fn made by entry e returned `out`
CallReturned(m, e, out) ==
    LET m0 == [m EXCEPT !.entries[e].outs = Append(@, out)]
    IN IF out.ok
       THEN Settle(m0, e, TRUE, out.val)
       ELSE LET en == m0.entries[e]
                m1 == [m0 EXCEPT !.entries[e].lastError = CaughtError(en, out.val)]
            IN IF ~isRateLimitError(out.val)
               THEN Settle(m1, e, FALSE, m1.entries[e].lastError)
               ELSE IF ShouldWait(en)
                    THEN LET m2 == onRetry(m1, e, en.backoffMs)
                         IN [m2 EXCEPT
                               !.entries[e].st = "backoff",
                               !.entries[e].onRetryLog =
                                   Append(@, <<en.attempt + 1, en.backoffMs>>),
                               !.entries[e].waits = Append(@, en.backoffMs),
                               !.entries[e].wakeAt = now + en.backoffMs]
                    ELSE NextAttempt(m1, e)

\* withRetry: the backoff timer fired
BackoffElapsed(m, e) ==
    NextAttempt([m EXCEPT !.entries[e].backoffMs = NextBackoff(m.entries[e])], e)

\* the items clearQueue takes out of the queue: this.queue.splice(0); the
\* variant is splice(1)
Spliced_KeepFirst(q) == IF q = <<>> THEN q ELSE Tail(q)

Spliced(q) == q

\* what splice leaves in the queue; the variant takes a copy and leaves all
Remaining_All(q) == q

Remaining(q) == SubSeq(q, 1, Len(q) - Len(Spliced(q)))

\* item.reject(new Error('Queue cleared')) and the job's continuation
RejectCleared(m, e) ==
    JobSettled([m EXCEPT !.entries[e].st = "cleared",
                         !.entries[e].fut = "rejected",
                         !.entries[e].val = QueueCleared,
                         !.entries[e].settles = @ + 1], e)

clearQueue(m) ==
    LET items == Spliced(m.queue)
    IN FoldSeq(RejectCleared, [m EXCEPT !.queue = Remaining(m.queue)], items)

\* { ...base, ...partial }
Merge(base, partial) ==
    [k \in DOMAIN base |-> IF k \in DOMAIN partial THEN partial[k] ELSE base[k]]

\* RateLimiter.updateConfig, reached through configureRateLimiter
updateConfig(m, partial) == [m EXCEPT !.config = Merge(@, partial)]

----------------------------------------------------------------------------
(* generatePromptForImage and generatePrompts *)

\* generatePromptForImage(url, ..., {rateLimitConfig: rlc, onRetry}) called by
\* run r: configure the limiter, capture its config, enqueue execute
generatePromptForImage(m, url, r, rlc, wasCompleted) ==
    LET m1 == IF rlc = Undefined THEN m ELSE [m EXCEPT !.config = rlc]
        en == [NewEntry(url, r, m1.config) EXCEPT !.wasCompleted = wasCompleted]
        m2 == [m1 EXCEPT !.entries = Append(@, en)]
    IN enqueue(m2, Len(m2.entries))

\* "Initialize all prompts as pending"; the variant leaves failed jobs alone
InitPending_NewOnly(m, url) ==
    IF m.prompts[url].status = "absent"
    THEN [m EXCEPT !.prompts[url] =
             [status |-> "pending", prompt |-> EmptyText, error |-> NoVal]]
    ELSE m

InitPending(m, url) ==
    IF m.prompts[url].status \in {"absent", "error"}
    THEN [m EXCEPT !.prompts[url] =
             [status |-> "pending", prompt |-> EmptyText, error |-> NoVal]]
    ELSE m

\* the body of urls.map(async (url) => ...) up to its await, with
\* mergedOptions.rateLimitConfig = rlc
StartJobWith(m, url, rlc) ==
    LET current == m.prompts[url]
        m1 == IF current.status # "completed"
              THEN [m EXCEPT !.prompts[url] =
                       [current EXCEPT !.status = "generating", !.error = NoVal]]
              ELSE m
        m2 == generatePromptForImage(m1, url, Len(m.runs), rlc,
                                     current.status = "completed")
    IN [m2 EXCEPT !.entries[Len(m2.entries)].started = m1.prompts[url]]

\* mergedOptions = {rateLimitConfig, ..., ...promptOptions}: a key of
\* promptOptions replaces the hook's value even when its value is undefined
MergedRateLimitConfig(promptOptions) ==
    IF "rateLimitConfig" \in DOMAIN promptOptions
    THEN promptOptions.rateLimitConfig
    ELSE rateLimitConfig

\* setProgress({ current: 0, total, percentage: 0 }); the variant starts full
ProgressAtStart_Full(total) == [current |-> total, total |-> total, percentage |-> 100]

ProgressAtStart(total) == [current |-> 0, total |-> total, percentage |-> 0]

\* generatePrompts(urls, apiKey, model, promptOptions)
generatePromptsWith(m, urls, promptOptions) ==
    LET total == Len(urls)
        StartJob(mm, url) == StartJobWith(mm, url, MergedRateLimitConfig(promptOptions))
        m0 == [m EXCEPT !.loading = TRUE,
                        !.progress = ProgressAtStart(total),
                        !.runs = Append(@, [urls |-> urls, total |-> total,
                                            completedCount |-> 0, done |-> FALSE])]
        m1 == FoldSeq(InitPending, m0, urls)
        m2 == FoldSeq(StartJob, m1, urls)
    IN [m2 EXCEPT !.entries = [i \in 1..Len(m2.entries) |->
            IF i > Len(m.entries)
            THEN [m2.entries[i] EXCEPT
                     !.wasFailed = m.prompts[m2.entries[i].url].status = "error"]
            ELSE m2.entries[i]]]

\* generatePrompts(urls, apiKey, model)
generatePrompts(m, urls) == generatePromptsWith(m, urls, [useRetry |-> TRUE])

\* handleGeneratePrompts of the page, both API keys set: the generator picked
\* for the provider is passed as a fifth argument, and generatePrompts has
\* four parameters
handleGeneratePrompts(m, urls, provider, isFreeModel) ==
    LET generatorFn == IF provider = "google" THEN "undefined"
                       ELSE "generateOpenRouterPrompt"
        promptOptions ==
            [rateLimitConfig |-> IF provider = "openrouter" /\ isFreeModel
                                 THEN FREE_MODEL_RATE_LIMIT ELSE Undefined]
        m1 == generatePromptsWith(m, urls, promptOptions)
    IN [m1 EXCEPT !.entries = [i \in 1..Len(m1.entries) |->
            IF i > Len(m.entries)
            THEN [m1.entries[i] EXCEPT !.provider = provider]
            ELSE m1.entries[i]]]

Providers == {"google", "openrouter"}

\* the batches the URL list can hold: non-empty, no reference twice
Batches ==
    { <<u>> : u \in Urls } \cup
    { <<u, v>> : <<u, v>> \in { p \in Urls \X Urls : p[1] # p[2] } }

----------------------------------------------------------------------------
(* Specification *)

Executing(m) == { e \in 1..Len(m.entries) : m.entries[e].st \in {"calling", "backoff"} }
NotStarted(m) == { e \in 1..Len(m.entries) : m.entries[e].st \in {"queued", "held"} }

InitGovernor(policies) ==
    /\ now = StartTime
    /\ queue = <<>>
    /\ isProcessing = FALSE
    /\ lastRequestTime = 0
    /\ config = DEFAULT_RATE_LIMIT_CONFIG
    /\ entries = <<>>
    /\ prompts = [u \in Urls |-> NoJob]
    /\ progress = [current |-> 0, total |-> 0, percentage |-> 0]
    /\ loading = FALSE
    /\ rateLimitConfig \in policies
    /\ runs = <<>>
    /\ releases = <<>>
    /\ adapterCalls = [u \in Urls |-> 0]

\* no response received
InitResponse == raw = <<>> /\ content = <<>> /\ stage = "none" /\ prev = <<>>

\* useUrls as constructed
InitUrls == urlList = <<>> /\ urlError = "" /\ pasting = <<>>

InitWith(policies) == InitGovernor(policies) /\ InitResponse /\ InitUrls

Init == InitWith(Policies)

\* The clock is read by processQueue and by the timers only: once nothing is
\* in flight and the spacing since the last release has elapsed, a later
\* reading differs from this one by a shift of all times.
ClockObserved ==
    \/ \E e \in 1..Len(entries) : entries[e].st \in {"held", "calling", "backoff"}
    \/ now - lastRequestTime < MinDelay(config)

\* the clock advances
Tick ==
    /\ ClockObserved
    /\ \E d \in TickSteps : now + d <= MaxTime /\ now' = now + d
    /\ UNCHANGED <<queue, isProcessing, lastRequestTime, config, entries, prompts,
                   progress, loading, rateLimitConfig, runs, releases, adapterCalls,
                   pageVars>>

\* the UI calls generatePrompts(urls, apiKey, model)
GeneratePromptsWithin(bound) ==
    /\ \E urls \in Batches :
          /\ Len(entries) + Len(urls) <= bound
          /\ Commit(generatePrompts(Cur, urls))
    /\ UNCHANGED <<now, rateLimitConfig, pageVars>>

GeneratePrompts == GeneratePromptsWithin(MaxEntries)

\* the spacing timer of the drain loop fires
SpacingElapsed ==
    /\ \E e \in 1..Len(entries) :
          /\ entries[e].st = "held"
          /\ now >= entries[e].wakeAt
          /\ Commit(Release(Cur, e))
    /\ UNCHANGED <<now, rateLimitConfig, pageVars>>

\* a call of generatePromptInternal settles
CallReturnsWith(outs) ==
    /\ \E e \in 1..Len(entries) :
          /\ entries[e].st = "calling"
          /\ \E out \in outs : Commit(CallReturned(Cur, e, out))
    /\ UNCHANGED <<now, rateLimitConfig, pageVars>>

CallReturns == CallReturnsWith(OutcomesShort)

\* the backoff timer of withRetry fires
BackoffWake ==
    /\ \E e \in 1..Len(entries) :
          /\ entries[e].st = "backoff"
          /\ now >= entries[e].wakeAt
          /\ Commit(BackoffElapsed(Cur, e))
    /\ UNCHANGED <<now, rateLimitConfig, pageVars>>

\* history: where a clearQueue call found the entries that had not begun,
\* whether an action was executing then, and the queue size the call left
NoteCancel(before, after) ==
    [after EXCEPT !.entries = [e \in 1..Len(after.entries) |->
        IF e \in NotStarted(before)
        THEN [after.entries[e] EXCEPT
                 !.cancelAs = before.entries[e].st,
                 !.cancelIdle = Executing(before) = {},
                 !.cancelLeft = Len(after.queue)]
        ELSE after.entries[e]]]

\* the UI calls cancelPendingRequests -> clearRequestQueue -> clearQueue
ClearQueue ==
    /\ Commit(NoteCancel(Cur, clearQueue(Cur)))
    /\ UNCHANGED <<now, rateLimitConfig, pageVars>>

Next ==
    \/ Tick
    \/ GeneratePrompts
    \/ SpacingElapsed
    \/ CallReturns
    \/ BackoffWake
    \/ ClearQueue

Spec == Init /\ [][Next]_vars

\* The page: a run is started through handleGeneratePrompts, whose button is
\* disabled while a run is loading, with the limiter as it is constructed.
InitProvider == InitWith({DEFAULT_RATE_LIMIT_CONFIG})

HandleGeneratePrompts ==
    /\ ~loading
    /\ \E urls \in Batches, provider \in Providers, isFreeModel \in BOOLEAN :
          /\ Len(entries) + Len(urls) <= ProviderEntries
          /\ Commit(handleGeneratePrompts(Cur, urls, provider, isFreeModel))
    /\ UNCHANGED <<now, rateLimitConfig, pageVars>>

NextProvider ==
    \/ Tick
    \/ HandleGeneratePrompts
    \/ SpacingElapsed
    \/ CallReturns
    \/ BackoffWake

SpecProvider == InitProvider /\ [][NextProvider]_vars

\* The retry executor on its own: one job at a time, the wider policies.
InitRetry == InitWith(RetryPolicies)

GenerateOne == GeneratePromptsWithin(RetryEntries)

CallReturnsAny == CallReturnsWith(Outcomes)

NextRetry ==
    \/ Tick
    \/ GenerateOne
    \/ CallReturnsAny
    \/ BackoffWake

SpecRetry == InitRetry /\ [][NextRetry]_vars

\* The hook with its configuration changed while runs are active.
ConfigUpdates ==
    { [delayMs |-> 1000],
      [maxRetries |-> 0, initialBackoffMs |-> 2000, maxBackoffMs |-> 2000] }

\* the UI calls updateRateLimitConfig(partial)
UpdateRateLimitConfig ==
    /\ \E partial \in ConfigUpdates :
          LET newConfig == Merge(rateLimitConfig, partial)
          IN /\ newConfig # rateLimitConfig \/ newConfig # config
             /\ rateLimitConfig' = newConfig
             /\ Commit(updateConfig(Cur, newConfig))
    /\ UNCHANGED <<now, pageVars>>

GenerateFew == GeneratePromptsWithin(ConfigEntries)

NextConfig ==
    \/ Tick
    \/ GenerateFew
    \/ UpdateRateLimitConfig
    \/ SpacingElapsed
    \/ CallReturns
    \/ BackoffWake

SpecConfig == Init /\ [][NextConfig]_vars

\* The retry executor facing errors of other kinds: the failure of fetch, a
\* provider error that quotes a model name, a provider error that quotes none.
OtherErrors ==
    { <<"Failed to fetch">>,
      <<"[404 Not Found] models/vision-", "429", " is not found">>,
      <<"[400 Bad Request] API key not valid">> }

\* the outcomes of a call: success, an error of another kind, a rate limit
OutcomesKinds == OutcomesOf(OtherErrors \cup { <<"429", "Too Many Requests">> })

CallReturnsKinds == CallReturnsWith(OutcomesKinds)

NextKinds ==
    \/ Tick
    \/ GenerateOne
    \/ CallReturnsKinds
    \/ BackoffWake

SpecKinds == InitRetry /\ [][NextKinds]_vars

\* The drain loop under fair scheduling: timers fire and calls return, as the
\* event loop and a terminating action guarantee.  The clock is not capped:
\* it advances while a timer is pending or the spacing since the last release
\* has not elapsed, so a call returns within the spacing.
TimerPending ==
    \/ \E e \in 1..Len(entries) :
          entries[e].st \in {"held", "backoff"} /\ now < entries[e].wakeAt
    \/ now - lastRequestTime < MinDelay(config)

TickOn ==
    /\ TimerPending
    /\ \E d \in TickSteps : now' = now + d
    /\ UNCHANGED <<queue, isProcessing, lastRequestTime, config, entries, prompts,
                   progress, loading, rateLimitConfig, runs, releases, adapterCalls,
                   pageVars>>

GenerateLive == GeneratePromptsWithin(LiveEntries)

NextLive ==
    \/ TickOn
    \/ GenerateLive
    \/ SpacingElapsed
    \/ CallReturns
    \/ BackoffWake
    \/ ClearQueue

\* what the event loop does by itself: time passes, timers fire, calls return
EventLoop == TickOn \/ SpacingElapsed \/ CallReturns \/ BackoffWake

SpecLive == Init /\ [][NextLive]_vars /\ WF_vars(EventLoop)

----------------------------------------------------------------------------
(* generateOpenRouterPrompt: the clean-up of the response.  A text is a      *)
(* sequence of characters; the lead-in phrases, the bold marker and the      *)
(* header marker are taken as one character each.                            *)

Chars ==
    { "Here is the prompt", "HERE IS THE PROMPT", "Prompt", ":", "\n", " ",
      "**", "###", "\"", "a" }

\* result.choices[0]?.message?.content || ''
Responses == UNION { [1..n -> Chars] : n \in 0..MaxText }

IsSpace(c) == c \in {" ", "\n"}
IsQuote(c) == c \in {"\"", "'"}

RECURSIVE TrimStart(_)
TrimStart(s) == IF s # <<>> /\ IsSpace(Head(s)) THEN TrimStart(Tail(s)) ELSE s

RECURSIVE TrimEnd(_)
TrimEnd(s) ==
    IF s # <<>> /\ IsSpace(s[Len(s)]) THEN TrimEnd(SubSeq(s, 1, Len(s) - 1)) ELSE s

\* String.prototype.trim
trim(s) == TrimEnd(TrimStart(s))

RECURSIVE RemoveHeadersFrom(_, _)
\* .replace(/^###\s*/gm, ''), lineStart telling whether ^ matches here
RemoveHeadersFrom(s, lineStart) ==
    IF s = <<>> THEN <<>>
    ELSE IF lineStart /\ Head(s) = "###"
         THEN LET rest == TrimStart(Tail(s))
                  eaten == Len(Tail(s)) - Len(rest)
                  lastEaten == s[1 + eaten]
              IN RemoveHeadersFrom(rest, lastEaten = "\n")
         ELSE <<Head(s)>> \o RemoveHeadersFrom(Tail(s), Head(s) = "\n")

RemoveHeaders(s) == RemoveHeadersFrom(s, TRUE)

RECURSIVE RemoveBold_First(_)
\* .replace(/\*\*/g, ''); the variant replaces the first match only
RemoveBold_First(s) ==
    IF s = <<>> THEN s
    ELSE IF Head(s) = "**" THEN Tail(s) ELSE <<Head(s)>> \o RemoveBold_First(Tail(s))

RemoveBold(s) == SelectSeq(s, LAMBDA c : c # "**")

\* .replace(/^["']|["']$/g, '')
RemoveWrappingQuotes(s) ==
    LET s1 == IF s # <<>> /\ IsQuote(Head(s)) THEN Tail(s) ELSE s
    IN IF s1 # <<>> /\ IsQuote(s1[Len(s1)]) THEN SubSeq(s1, 1, Len(s1) - 1) ELSE s1

\* "Clean up the response"
CleanUp(s) == trim(RemoveWrappingQuotes(RemoveBold(RemoveHeaders(s))))

LowerChar(c) ==
    CASE c \in {"Here is the prompt", "HERE IS THE PROMPT"} -> "here is the prompt"
      [] c = "Prompt" -> "prompt"
      [] OTHER -> c

toLowerCase(s) == [i \in 1..Len(s) |-> LowerChar(s[i])]

\* the prefixes, lower-cased as the loop compares them
prefixes ==
    << <<"here is a comprehensive prompt">>, <<"here is the prompt">>,
       <<"here is a detailed prompt">>, <<"sure, here is">>, <<"prompt", ":">> >>

startsWith(s, p) == Len(s) >= Len(p) /\ SubSeq(s, 1, Len(p)) = p

IsSeparator(c) == c \in {":", "\n"}

RECURSIVE split(_)
\* content.split(/[:\n]/)
split(s) ==
    IF \A i \in 1..Len(s) : ~IsSeparator(s[i]) THEN <<s>>
    ELSE LET i == CHOOSE k \in 1..Len(s) :
                      IsSeparator(s[k]) /\ \A j \in 1..(k - 1) : ~IsSeparator(s[j])
         IN <<SubSeq(s, 1, i - 1)>> \o split(SubSeq(s, i + 1, Len(s)))

RECURSIVE join(_, _)
\* parts.join(sep)
join(parts, sep) ==
    IF parts = <<>> THEN <<>>
    ELSE IF Len(parts) = 1 THEN parts[1]
    ELSE parts[1] \o <<sep>> \o join(Tail(parts), sep)

RECURSIVE RemoveLeadInFrom(_, _)
\* the loop over the prefixes, from the k-th one on
RemoveLeadInFrom(s, k) ==
    IF k > Len(prefixes) THEN s
    ELSE IF startsWith(toLowerCase(s), prefixes[k]) /\ Len(split(s)) > 1
         THEN trim(join(Tail(split(s)), " "))
         ELSE RemoveLeadInFrom(s, k + 1)

RemoveLeadIn(s) == RemoveLeadInFrom(s, 1)

\* a response has been received
InitText ==
    /\ InitGovernor({DEFAULT_RATE_LIMIT_CONFIG}) /\ InitUrls
    /\ raw \in Responses /\ content = raw /\ stage = "received" /\ prev = <<>>

\* content = content.replace(...).replace(...).replace(...).trim()
CleanUpResponse ==
    /\ stage = "received"
    /\ content' = CleanUp(content) /\ prev' = content /\ stage' = "cleaned"
    /\ UNCHANGED <<now, queue, isProcessing, lastRequestTime, config, entries, prompts,
                   progress, loading, rateLimitConfig, runs, releases, adapterCalls,
                   raw, urlList, urlError, pasting>>

\* the loop over the prefixes and `return content`
ReturnContent ==
    /\ stage = "cleaned"
    /\ content' = RemoveLeadIn(content) /\ prev' = content /\ stage' = "returned"
    /\ UNCHANGED <<now, queue, isProcessing, lastRequestTime, config, entries, prompts,
                   progress, loading, rateLimitConfig, runs, releases, adapterCalls,
                   raw, urlList, urlError, pasting>>

NextText ==
    \/ CleanUpResponse
    \/ ReturnContent

SpecText == InitText /\ [][NextText]_vars

----------------------------------------------------------------------------
(* useUrls: the list of references that feeds a batch.  A string is a       *)
(* sequence of characters; the scheme and an extension are one character.   *)

UrlA == <<"https://", "a", ".png">>
UrlB == <<"https://", "b", ".png">>

\* words without whitespace: two image URLs, one in brackets, a link to a
\* page, a plain word
Words == { UrlA, UrlB, <<"(">> \o UrlA \o <<")">>, <<"https://", "a", ".txt">>, <<"a">> }

\* the words separated by single spaces
RECURSIVE JoinWords(_)
JoinWords(ws) ==
    IF ws = <<>> THEN <<>>
    ELSE IF Len(ws) = 1 THEN ws[1]
    ELSE ws[1] \o <<" ">> \o JoinWords(Tail(ws))

\* what the clipboard can hold
ClipboardTexts == { JoinWords(ws) : ws \in UNION { [1..n -> Words] : n \in 0..MaxClip } }

\* what the user can type in the input field
TypedUrls == Words \cup { <<" ">> \o UrlA \o <<" ">>, <<" ">>, <<>> }

\* /\.(jpg|jpeg|png|gif|webp|bmp)/i
IsImageExt(c) == c = ".png"

\* isValidImageUrl: new URL(url) does not throw and the extension ends the url
isValidImageUrl(url) ==
    /\ Len(url) >= 2 /\ url[1] = "https://"
    /\ \A i \in 1..Len(url) : ~IsSpace(url[i])
    /\ IsImageExt(url[Len(url)])

\* text.match(urlPattern) from position i on: a match starts at a scheme, runs
\* over characters that are no whitespace and ends at the last extension of
\* that run; the search goes on behind the match
RECURSIVE ExtractFrom(_, _)
ExtractFrom(text, i) ==
    IF i > Len(text) THEN <<>>
    ELSE IF text[i] # "https://" THEN ExtractFrom(text, i + 1)
    ELSE LET run == { j \in i..Len(text) :
                        \A k \in (i + 1)..j : ~IsSpace(text[k]) }
             ends == { k \in run : k >= i + 2 /\ IsImageExt(text[k]) }
         IN IF ends = {} THEN ExtractFrom(text, i + 1)
            ELSE LET k == CHOOSE x \in ends : \A y \in ends : y <= x
                 IN <<SubSeq(text, i, k)>> \o ExtractFrom(text, k + 1)

extractUrlsFromText(text) == ExtractFrom(text, 1)

\* urls.includes(url)
includes(list, url) == \E i \in 1..Len(list) : list[i] = url

\* foundUrls.filter((url) => !urls.includes(url))
NewUrls(foundUrls, list) == SelectSeq(foundUrls, LAMBDA url : ~includes(list, url))

otherVars ==
    <<now, queue, isProcessing, lastRequestTime, config, entries, prompts,
      progress, loading, rateLimitConfig, runs, releases, adapterCalls,
      raw, content, stage, prev>>

\* addUrl(url)
AddUrl ==
    /\ \E url \in TypedUrls :
          LET trimmedUrl == trim(url)
          IN IF trimmedUrl = <<>>
             THEN UNCHANGED <<urlList, urlError>>
             ELSE IF ~isValidImageUrl(trimmedUrl)
             THEN /\ urlError' = "Please enter a valid image URL"
                  /\ UNCHANGED urlList
             ELSE IF includes(urlList, trimmedUrl)
             THEN /\ urlError' = "This URL is already in the list"
                  /\ UNCHANGED urlList
             ELSE /\ Len(urlList) < MaxUrls
                  /\ urlList' = Append(urlList, trimmedUrl)
                  /\ urlError' = ""
    /\ UNCHANGED <<pasting, otherVars>>

\* removeUrl(index)
RemoveUrl ==
    /\ \E index \in 0..(Len(urlList) - 1) :
          urlList' = [k \in 1..(Len(urlList) - 1) |->
                         IF k <= index THEN urlList[k] ELSE urlList[k + 1]]
    /\ UNCHANGED <<urlError, pasting, otherVars>>

\* pasteFromClipboard up to `await navigator.clipboard.readText()`: the call
\* keeps the urls of the render it was made in
PasteFromClipboard ==
    /\ pasting = <<>>
    /\ pasting' = <<urlList>>
    /\ UNCHANGED <<urlList, urlError, otherVars>>

\* readText resolved with `text`: the rest of the try block
ClipboardRead ==
    /\ pasting # <<>>
    /\ \E text \in ClipboardTexts :
          LET urls == pasting[1]
              foundUrls == extractUrlsFromText(text)
              newUrls == NewUrls(foundUrls, urls)
          IN IF foundUrls = <<>>
             THEN /\ urlError' = "No image URLs found in clipboard"
                  /\ UNCHANGED urlList
             ELSE IF newUrls = <<>>
             THEN /\ urlError' = "All URLs from clipboard are already in the list"
                  /\ UNCHANGED urlList
             ELSE /\ Len(urls) + Len(newUrls) <= MaxUrls
                  /\ urlList' = urls \o newUrls
                  /\ urlError' = ""
    /\ pasting' = <<>>
    /\ UNCHANGED otherVars

\* readText rejected: the catch block
ClipboardDenied ==
    /\ pasting # <<>>
    /\ urlError' = "Failed to read clipboard. Please grant clipboard permissions."
    /\ pasting' = <<>>
    /\ UNCHANGED <<urlList, otherVars>>

\* clearError()
ClearError ==
    /\ urlError # ""
    /\ urlError' = ""
    /\ UNCHANGED <<urlList, pasting, otherVars>>

NextUrls ==
    \/ AddUrl
    \/ RemoveUrl
    \/ PasteFromClipboard
    \/ ClipboardRead
    \/ ClipboardDenied
    \/ ClearError

SpecUrls == InitWith({DEFAULT_RATE_LIMIT_CONFIG}) /\ [][NextUrls]_vars

----------------------------------------------------------------------------
(* Properties *)

Ids == 1..Len(entries)
Released(e) == \E k \in 1..Len(releases) : releases[k][1] = e
ReleaseIdx(e) == CHOOSE k \in 1..Len(releases) : releases[k][1] = e
PosIn(s, x) == CHOOSE k \in 1..Len(s) : s[k] = x
Last(s) == s[Len(s)]

RECURSIVE Pow(_, _)
Pow(b, n) == IF n = 0 THEN 1 ELSE b * Pow(b, n - 1)

\* the rate-limit signals of the error taxonomy, message by message
RateLimitSignals == { <<"429", "Too Many Requests">>, <<"Resource exhausted">> }
RateLimited(out) == ~out.ok /\ out.val \in RateLimitSignals
NonRetryable(out) == ~out.ok /\ out.val \notin RateLimitSignals

\* C1: at most one enqueued action is executing (in a call of the adapter or
\* in a backoff wait of its retries) at any time.
C1_OneAtATime == Cardinality(Executing(Cur)) <= 1

\* an entry is in a backoff wait while another one waits in the queue
C1_Witness ==
    \E e \in Ids : entries[e].st = "backoff" /\ Len(queue) >= 1

\* C2: entries are released in the order they were enqueued (entry ids are
\* given in enqueue order), and the entries of one generatePrompts call are
\* enqueued, hence first dispatched, in the order of its urls.
C2_Fifo ==
    /\ \A i, j \in Ids :
          (i < j /\ Released(j) /\ entries[i].st # "cleared")
              => (Released(i) /\ ReleaseIdx(i) < ReleaseIdx(j))
    /\ \A i, j \in Ids :
          (/\ entries[i].run = entries[j].run
           /\ PosIn(runs[entries[i].run].urls, entries[i].url)
                < PosIn(runs[entries[j].run].urls, entries[j].url)
           /\ Released(i) /\ Released(j))
              => (ReleaseIdx(i) < ReleaseIdx(j) /\ entries[i].calls >= 1)

\* two entries of one batch waited behind an earlier batch's entry, and the
\* older of the two has been released while the younger still waits
C2_Witness ==
    /\ Len(entries) = 3
    /\ Len(releases) = 2
    /\ entries[2].run = entries[3].run
    /\ entries[1].run # entries[2].run
    /\ entries[2].calls >= 1
    /\ entries[3].st = "queued"

\* C3: two consecutive releases of the drain loop are at least delayMs apart.
C3_Spacing ==
    \A k \in 1..(Len(releases) - 1) :
        releases[k + 1][2] - releases[k][2] >= rateLimitConfig.delayMs

\* two entries of one batch were released exactly delayMs apart
C3_Witness ==
    \E k \in 1..(Len(releases) - 1) :
        /\ releases[k + 1][2] - releases[k][2] = rateLimitConfig.delayMs
        /\ entries[releases[k][1]].run = entries[releases[k + 1][1]].run

\* C4: withRetry never calls fn more than maxRetries+1 times; when every call
\* failed with a rate-limit signal it has made exactly maxRetries+1 calls and
\* fails with the error of the last one; when a call succeeds it is the last
\* call and its result is returned.
C4_Attempts ==
    \A e \in Ids :
        LET en == entries[e]
        IN /\ en.calls <= en.cfg.maxRetries + 1
           /\ Len(en.outs) <= en.calls
           /\ (en.st = "done" /\ \A k \in 1..Len(en.outs) : RateLimited(en.outs[k]))
                 => /\ en.calls = en.cfg.maxRetries + 1
                    /\ Len(en.outs) = en.calls
                    /\ en.fut = "rejected"
                    /\ en.val = Last(en.outs).val
           /\ \A a \in 1..Len(en.outs) :
                 en.outs[a].ok
                    => /\ a = Len(en.outs) /\ en.calls = a
                       /\ en.st = "done" /\ en.fut = "resolved"
                       /\ en.val = en.outs[a].val

\* every one of maxRetries+1 >= 3 calls was rate limited, with different errors
C4_Witness ==
    \E e \in Ids :
        /\ entries[e].st = "done" /\ entries[e].fut = "rejected"
        /\ entries[e].calls = entries[e].cfg.maxRetries + 1
        /\ entries[e].calls >= 3
        /\ \A k \in 1..Len(entries[e].outs) : RateLimited(entries[e].outs[k])
        /\ entries[e].outs[1].val # Last(entries[e].outs).val

\* C5: the k-th backoff wait lasts
\* min(initialBackoffMs * backoffMultiplier^(k-1), maxBackoffMs).
C5_Backoff ==
    \A e \in Ids :
        \A k \in 1..Len(entries[e].waits) :
            entries[e].waits[k] =
                Min(entries[e].cfg.initialBackoffMs
                        * Pow(entries[e].cfg.backoffMultiplier, k - 1),
                    entries[e].cfg.maxBackoffMs)

\* a second wait that the cap shortened
C5_Witness ==
    \E e \in Ids :
        /\ Len(entries[e].waits) = 2
        /\ entries[e].waits[2] = entries[e].cfg.maxBackoffMs
        /\ entries[e].waits[2] <
              entries[e].cfg.initialBackoffMs * entries[e].cfg.backoffMultiplier

\* C6: a call that fails with an error that is no rate-limit signal is the
\* last call: no onRetry and no wait follow it, and withRetry fails with it.
C6_NonRetryable ==
    \A e \in Ids :
        LET en == entries[e]
        IN \A a \in 1..Len(en.outs) :
              NonRetryable(en.outs[a])
                 => /\ a = Len(en.outs) /\ en.calls = a
                    /\ Len(en.onRetryLog) = a - 1 /\ Len(en.waits) = a - 1
                    /\ en.st = "done" /\ en.fut = "rejected"
                    /\ en.val = en.outs[a].val

\* a first call that was rate limited, a second one that failed otherwise
C6_Witness ==
    \E e \in Ids :
        /\ Len(entries[e].outs) = 2
        /\ RateLimited(entries[e].outs[1])
        /\ NonRetryable(entries[e].outs[2])

\* C7: onRetry is called once before each backoff wait and never otherwise:
\* the k-th call passes attempt k and the duration of the k-th wait, there are
\* at most maxRetries calls, and outside a wait their number is the number
\* of calls of fn minus one.
C7_OnRetry ==
    \A e \in Ids :
        LET en == entries[e]
        IN /\ Len(en.onRetryLog) = Len(en.waits)
           /\ Len(en.onRetryLog) <= en.cfg.maxRetries
           /\ \A k \in 1..Len(en.onRetryLog) :
                 en.onRetryLog[k] = <<k, en.waits[k]>>
           /\ en.st = "backoff" => Len(en.onRetryLog) = en.calls
           /\ en.st \in {"calling", "done"} => Len(en.onRetryLog) = en.calls - 1

\* withRetry gave up after two onRetry calls and three calls of fn
C7_Witness ==
    \E e \in Ids :
        /\ entries[e].st = "done" /\ entries[e].fut = "rejected"
        /\ Len(entries[e].onRetryLog) = 2
        /\ entries[e].calls = 3

\* C8: clearQueue called while no action is executing fails every entry of
\* the queue with 'Queue cleared' and leaves the queue empty.
C8_ClearIdle ==
    \A e \in Ids :
        (entries[e].cancelAs = "queued" /\ entries[e].cancelIdle)
            => /\ entries[e].st = "cleared"
               /\ entries[e].fut = "rejected"
               /\ entries[e].val = QueueCleared
               /\ entries[e].cancelLeft = 0

\* an entry of the queue was cleared while no action was executing
C8_Witness ==
    \E e \in Ids :
        /\ entries[e].cancelAs = "queued" /\ entries[e].cancelIdle
        /\ entries[e].fut = "rejected" /\ entries[e].val = QueueCleared

\* C9: every entry whose action had not begun when clearQueue was called,
\* the one held in the spacing wait included, is failed with 'Queue cleared'
\* and never executed; an entry that has begun is never failed by clearQueue
\* and settles with the outcome of its own action.
C9_CancelPartition ==
    \A e \in Ids :
        LET en == entries[e]
        IN /\ en.cancelAs # "none"
                => /\ en.st = "cleared" /\ en.fut = "rejected"
                   /\ en.val = QueueCleared /\ en.calls = 0
           /\ en.calls > 0
                => /\ en.st # "cleared"
                   /\ en.fut # "pending" => en.val = Last(en.outs).val

\* C10: the adapter is never called for an entry that a generatePrompts call
\* made for a reference whose job was completed when it was called (no such
\* entry should even be enqueued).
C10_NoReissue ==
    \A e \in Ids : entries[e].wasCompleted => entries[e].calls = 0

-----------------------------------------------------------------------------
(* The hook's jobs *)

PendingJob == [status |-> "pending", prompt |-> EmptyText, error |-> NoVal]
GeneratingJob == [status |-> "generating", prompt |-> EmptyText, error |-> NoVal]
\* the job the outcome of entry e alone calls for
OutcomeJob(e) ==
    IF entries[e].fut = "resolved"
    THEN [status |-> "completed", prompt |-> entries[e].val, error |-> NoVal]
    ELSE [status |-> "error", prompt |-> EmptyText, error |-> entries[e].val]
EntriesOf(r) == { e \in Ids : entries[e].run = r }

\* C11: a run over a reference whose job is Failed starts that job over: the
\* job is reset to Pending and then set to Generating with its failure reason
\* cleared and its result empty, a new request with a retry budget of its own
\* goes through the queue, and when that request settles the job is Completed
\* or Failed as that request's outcome says.
C11_RetryFromScratch ==
    /\ \A u \in Urls :
          prompts[u].status = "error" => InitPending(Cur, u).prompts[u] = PendingJob
    /\ \A e \in Ids :
          entries[e].wasFailed =>
              /\ entries[e].started = GeneratingJob
              /\ entries[e].st = "queued" => (\E k \in 1..Len(queue) : queue[k] = e)
              /\ Len(entries[e].outs) <= entries[e].calls
              /\ entries[e].calls <= entries[e].cfg.maxRetries + 1
              /\ entries[e].fut # "pending"
                    => /\ entries[e].jobAtSettle = OutcomeJob(e)
                       /\ entries[e].calls > 0 => entries[e].val = Last(entries[e].outs).val

\* a reference failed in one run, was run again and is now Completed
C11_Witness ==
    \E d, e \in Ids :
        /\ d < e /\ entries[d].url = entries[e].url
        /\ entries[d].fut = "rejected" /\ entries[d].calls > 0
        /\ entries[e].wasFailed /\ entries[e].fut = "resolved"
        /\ prompts[entries[e].url] = OutcomeJob(e)

Terminal == {"completed", "error"}
RunIds == 1..Len(runs)
Settled(e) == entries[e].fut # "pending"

\* C12: the promise of generatePrompts is fulfilled exactly when every job of
\* its batch has reached Completed or Failed, whatever mix of successes,
\* exhausted retries, other failures and cancellations the jobs ran into: a
\* failing job is counted like a succeeding one and does not end the run early,
\* and once no run is active every reference of the batch is in the result map
\* in a terminal state.
C12_ResolvesAfterAll ==
    /\ \A r \in RunIds :
          /\ Cardinality(EntriesOf(r)) = runs[r].total
          /\ runs[r].completedCount = Cardinality({ e \in EntriesOf(r) : Settled(e) })
          /\ runs[r].done <=> (\A e \in EntriesOf(r) : Settled(e))
          /\ \A e \in EntriesOf(r) :
                Settled(e) => /\ entries[e].jobAtSettle = OutcomeJob(e)
                              /\ entries[e].jobAtSettle.status \in Terminal
    /\ (\A r \in RunIds : runs[r].done)
          => \A r \in RunIds : \A k \in 1..Len(runs[r].urls) :
                prompts[runs[r].urls[k]].status \in Terminal
    /\ loading => \E r \in RunIds : ~runs[r].done

\* a run of two jobs has resolved, one job Failed after a non-retryable error
\* and the other was cancelled in the queue
C12_Witness ==
    \E r \in RunIds :
        /\ runs[r].done /\ runs[r].total = 2
        /\ \E d, e \in EntriesOf(r) :
              /\ entries[d].fut = "rejected" /\ entries[d].calls > 0
              /\ NonRetryable(Last(entries[d].outs))
              /\ entries[e].st = "cleared"
              /\ prompts[entries[d].url].status = "error"
              /\ prompts[entries[e].url].status = "error"

\* C13: when the latest run, over N >= 1 distinct references, has resolved
\* and each of its requests succeeded at its first call, progress reads
\* current N, total N, percentage 100 and each of the N jobs is Completed with
\* the text its request returned.
C13_AllSucceed ==
    \A r \in RunIds :
        (/\ r = Len(runs)
         /\ runs[r].done
         /\ \A e \in EntriesOf(r) :
               entries[e].fut = "resolved" /\ entries[e].calls = 1)
            => /\ progress = [current |-> runs[r].total, total |-> runs[r].total,
                              percentage |-> 100]
               /\ runs[r].total = Len(runs[r].urls)
               /\ \A e \in EntriesOf(r) :
                     prompts[entries[e].url] =
                        [status |-> "completed", prompt |-> entries[e].val,
                         error |-> NoVal]
               /\ \A e \in EntriesOf(r) : entries[e].val \in Texts

\* a run of two references has resolved with both requests succeeding at once
C13_Witness ==
    /\ Len(runs) = 1 /\ runs[1].done /\ runs[1].total = 2
    /\ \A e \in EntriesOf(1) : entries[e].fut = "resolved" /\ entries[e].calls = 1
    /\ progress.current = 2

\* the reason onRetry records for a wait of ms milliseconds
RetryReason(ms) ==
    <<"Rate limit hit. Retrying in", ToString((2 * ms + 1000) \div 2000), "s...">>
OnlyEntryOfItsUrl(e) == \A d \in Ids : d # e => entries[d].url # entries[e].url

\* C14: a job whose request is answered by a rate-limit error r <= maxRetries
\* times and then succeeds is Generating until the first answer, Retrying with
\* the reason 'Retrying in Ns' of the current wait after each of the r errors,
\* and Completed with the text after the success; it is never Failed and never
\* Pending on the way.
C14_RetryThenComplete ==
    \A e \in Ids :
        LET en == entries[e]
            n == Len(en.outs)
            job == prompts[en.url]
        IN (/\ OnlyEntryOfItsUrl(e)
            /\ en.st # "cleared"
            /\ \A k \in 1..n : RateLimited(en.outs[k]) \/ (k = n /\ en.outs[k].ok))
               => /\ n = 0 => job = GeneratingJob
                  /\ (n >= 1 /\ ~en.outs[n].ok /\ en.st # "done")
                        => /\ job = [status |-> "retrying", prompt |-> EmptyText,
                                     error |-> RetryReason(en.waits[n])]
                           /\ Len(en.onRetryLog) = n
                           /\ n <= en.cfg.maxRetries
                  /\ (n >= 1 /\ en.outs[n].ok)
                        => /\ en.st = "done"
                           /\ job = [status |-> "completed", prompt |-> en.outs[n].val,
                                     error |-> NoVal]
                           /\ Len(en.onRetryLog) = n - 1
                  /\ job.status # "pending"
                  /\ job.status = "error" => (en.st = "done" /\ n = en.cfg.maxRetries + 1)

\* a job was rate-limited twice, waited twice and is Completed
C14_Witness ==
    \E e \in Ids :
        /\ Len(entries[e].outs) = 3
        /\ RateLimited(entries[e].outs[1]) /\ RateLimited(entries[e].outs[2])
        /\ entries[e].outs[3].ok
        /\ Len(entries[e].waits) = 2
        /\ prompts[entries[e].url].status = "completed"

\* C15 as stated: the backoff wait of one job never delays the dispatch of
\* another job of its batch: while a job is in a backoff wait, a job of the
\* same batch is still in the queue only because the spacing since the last
\* release has not elapsed.
C15_BackoffIndependent ==
    \A d, e \in Ids :
        (/\ d # e /\ entries[d].run = entries[e].run
         /\ entries[d].st = "backoff" /\ entries[e].st = "queued")
            => now - lastRequestTime < MinDelay(config)

\* C15: while a job is in a backoff wait, every job enqueued before it has
\* settled, so the wait delays none of them, and no job enqueued after it is
\* dispatched: the wait is part of the one action the queue is executing.
C15_BackoffBlocksLater ==
    \A d, e \in Ids :
        entries[d].st = "backoff"
            => /\ e < d => entries[e].st \in {"done", "cleared"}
               /\ e > d => /\ entries[e].st \in {"queued", "cleared"}
                           /\ entries[e].calls = 0 /\ ~Released(e)

\* a job waits in the queue behind the backoff of a job of its batch although
\* the spacing since the last release has elapsed
C15_Witness ==
    \E d, e \in Ids :
        /\ d < e /\ entries[d].run = entries[e].run
        /\ entries[d].st = "backoff" /\ entries[e].st = "queued"
        /\ now - lastRequestTime >= MinDelay(config)

\* C16: a failed job aborts nothing: after an entry was rejected the drain loop
\* goes on releasing (entries still in the queue have a drain loop at work for
\* them), and every other job that settles is Completed or Failed as its own
\* outcome says, with its run counting it.
C16_FailureIsolated ==
    \A d \in Ids :
        (entries[d].fut = "rejected" /\ entries[d].st = "done")
            => /\ (Len(queue) > 0)
                     => (isProcessing /\ \E e \in Ids :
                             entries[e].st \in {"held", "calling", "backoff"})
               /\ \A e \in Ids \ {d} :
                     /\ Settled(e) => entries[e].jobAtSettle = OutcomeJob(e)
                     /\ (entries[e].st = "done" /\ entries[e].calls > 0)
                           => /\ entries[e].val = Last(entries[e].outs).val
                              /\ entries[e].fut = (IF Last(entries[e].outs).ok
                                                   THEN "resolved" ELSE "rejected")
               /\ runs[entries[d].run].completedCount =
                     Cardinality({ e \in EntriesOf(entries[d].run) : Settled(e) })

\* the first job of a batch failed and the second one, released after the
\* failure, is Completed
C16_Witness ==
    \E d, e \in Ids :
        /\ d < e /\ entries[d].run = entries[e].run
        /\ entries[d].fut = "rejected" /\ entries[d].st = "done"
        /\ entries[e].fut = "resolved"
        /\ prompts[entries[e].url].status = "completed"
        /\ prompts[entries[d].url].status = "error"

-----------------------------------------------------------------------------
(* The page *)

\* the adapter a provider stands for
AdapterOf(provider) ==
    IF provider = "google" THEN "generatePromptInternal" ELSE "generateOpenRouterPrompt"

\* C17: every call made for a job of a run goes to the adapter of the provider
\* the run was started with (generateOpenRouterPrompt for OpenRouter, the
\* Gemini adapter for Google) and never to the other one.
C17_AdapterSelected ==
    \A e \in Ids :
        entries[e].calls > 0 => entries[e].fn = AdapterOf(entries[e].provider)

-----------------------------------------------------------------------------
(* Errors of other kinds *)

\* C18 as stated: a call that fails with a transport failure or a provider
\* error other than throttling, whatever its message says, is the job's only
\* failure handling: no retry follows, and the job is Failed with the message.
C18_NeverRetried ==
    \A e \in Ids :
        LET en == entries[e]
        IN \A a \in 1..Len(en.outs) :
              (~en.outs[a].ok /\ en.outs[a].val \in OtherErrors)
                 => /\ a = Len(en.outs) /\ en.calls = a
                    /\ en.st = "done" /\ en.fut = "rejected"
                    /\ en.jobAtSettle = [status |-> "error", prompt |-> EmptyText,
                                         error |-> en.outs[a].val]

\* the errors of other kinds whose message holds none of '429', 'rate limit',
\* 'resource exhausted', 'too many requests'
PatternFreeErrors ==
    { <<"Failed to fetch">>, <<"[400 Bad Request] API key not valid">> }

\* C18: a call that fails with a transport failure or a provider error whose
\* message holds none of the four throttling patterns is never retried: it is
\* the last call, and the job is Failed with the message; an error of these
\* kinds whose message holds a pattern is handled as a rate-limit signal, with
\* a wait and another call while attempts remain.
C18_PatternFreeNotRetried ==
    \A e \in Ids :
        LET en == entries[e]
        IN \A a \in 1..Len(en.outs) :
              /\ (~en.outs[a].ok /\ en.outs[a].val \in PatternFreeErrors)
                    => /\ a = Len(en.outs) /\ en.calls = a
                       /\ Len(en.waits) = a - 1
                       /\ en.st = "done" /\ en.fut = "rejected"
                       /\ en.jobAtSettle = [status |-> "error", prompt |-> EmptyText,
                                            error |-> en.outs[a].val]
              /\ (/\ ~en.outs[a].ok
                  /\ en.outs[a].val \in OtherErrors \ PatternFreeErrors
                  /\ a <= en.cfg.maxRetries)
                    => /\ Len(en.waits) >= a
                       /\ en.st \in {"backoff", "calling", "done"}
                       /\ en.st = "done" => Len(en.outs) > a

\* a job with retries to spare failed at its first call with the failure of
\* fetch and is Failed with that message after this one call
C18_Witness ==
    \E e \in Ids :
        /\ entries[e].cfg.maxRetries >= 1
        /\ entries[e].outs = << [ok |-> FALSE, val |-> <<"Failed to fetch">>] >>
        /\ entries[e].calls = 1 /\ entries[e].st = "done"
        /\ prompts[entries[e].url] =
              [status |-> "error", prompt |-> EmptyText, error |-> <<"Failed to fetch">>]

-----------------------------------------------------------------------------
(* Cancellation and configuration during a run *)

\* C19: after cancelPendingRequests, every job of a run whose entry was
\* discarded is Failed with 'Queue cleared' and counted by its run, and the
\* run resolves as soon as no job of it is executing any more.
C19_CancelResolves ==
    \A r \in RunIds :
        (\E e \in EntriesOf(r) : entries[e].st = "cleared")
            => /\ \A e \in EntriesOf(r) :
                     entries[e].st = "cleared"
                        => /\ entries[e].fut = "rejected"
                           /\ entries[e].jobAtSettle =
                                 [status |-> "error", prompt |-> EmptyText,
                                  error |-> QueueCleared]
               /\ runs[r].completedCount =
                     Cardinality({ e \in EntriesOf(r) : Settled(e) })
               /\ (\A e \in EntriesOf(r) : entries[e].st \notin {"calling", "backoff"})
                     => runs[r].done

\* C20: the policy of a run is fixed when generatePrompts is called: two
\* consecutive releases of entries of one run are apart by the spacing of the
\* policy captured at the call, and the job's waits and attempts follow that
\* policy's retry parameters, whatever is configured meanwhile.
C20_PolicyFixed ==
    /\ \A k \in 1..(Len(releases) - 1) :
          LET d == releases[k][1]
              e == releases[k + 1][1]
          IN entries[d].run = entries[e].run
                => releases[k + 1][2] - releases[k][2] >= MinDelay(entries[e].cfg)
    /\ \A e \in Ids :
          /\ entries[e].calls <= entries[e].cfg.maxRetries + 1
          /\ entries[e].waits # <<>>
                => entries[e].waits[1] = entries[e].cfg.initialBackoffMs

-----------------------------------------------------------------------------
(* The clean-up of a provider's response *)

MatchesLeadIn(s) ==
    \E k \in 1..Len(prefixes) : startsWith(toLowerCase(s), prefixes[k])
HasSeparator(s) == \E i \in 1..Len(s) : IsSeparator(s[i])
\* what follows the first colon or newline of s
AfterFirstSeparator(s) ==
    LET i == CHOOSE k \in 1..Len(s) :
                 IsSeparator(s[k]) /\ \A j \in 1..(k - 1) : ~IsSeparator(s[j])
    IN SubSeq(s, i + 1, Len(s))

\* C21: when the cleaned response starts with a lead-in phrase, whatever its
\* case, the text returned is the trimmed remainder after the first colon or
\* newline, later colons and newlines included; any other response is
\* returned by this step as it is.
C21_LeadInRemoved ==
    stage = "returned"
        => content = (IF MatchesLeadIn(prev) /\ HasSeparator(prev)
                      THEN trim(AfterFirstSeparator(prev))
                      ELSE prev)

\* the subsequence of s at the positions that satisfy Keep
Kept(s, Keep(_)) ==
    LET idx == { i \in 1..Len(s) : Keep(i) }
    IN [k \in 1..Cardinality(idx) |->
           s[CHOOSE i \in idx : Cardinality({ j \in idx : j <= i }) = k]]
LineStart(s, i) == i = 1 \/ s[i - 1] = "\n"
WithoutBold(s) == Kept(s, LAMBDA i : s[i] # "**")
WithoutWrappingQuotes(s) ==
    Kept(s, LAMBDA i : ~(IsQuote(s[i]) /\ (i = 1 \/ i = Len(s))))
\* s without each line-leading header marker: '###' and the space after it
WithoutHeaderMarkers(s) ==
    Kept(s, LAMBDA i :
        /\ ~(s[i] = "###" /\ LineStart(s, i))
        /\ ~(s[i] = " " /\ i > 1 /\ s[i - 1] = "###" /\ LineStart(s, i - 1)))
\* s without each line-leading '###' and the run of whitespace after it
WithoutHeaderRuns(s) ==
    Kept(s, LAMBDA i :
        ~\E h \in 1..i :
            /\ s[h] = "###" /\ LineStart(s, h)
            /\ \A j \in (h + 1)..i : IsSpace(s[j]))
Trimmed(s) ==
    Kept(s, LAMBDA i :
        /\ \E j \in 1..i : ~IsSpace(s[j])
        /\ \E j \in i..Len(s) : ~IsSpace(s[j]))

\* C22 as stated: the cleaned response is the response without its bold
\* markers, its line-leading header markers and one wrapping quote at each
\* end, every other character kept in order.
C22_OnlyMarkersRemoved ==
    stage = "cleaned"
        => content = WithoutWrappingQuotes(WithoutBold(WithoutHeaderMarkers(raw)))

\* C22: the cleaned response is the response without each line-leading '###'
\* and the whitespace that follows it, without its bold markers and without
\* one wrapping quote at each end, and then without the whitespace at its
\* start and at its end; every other character is kept in order.
C22_MarkersRemovedAndTrimmed ==
    stage = "cleaned"
        => /\ content =
                Trimmed(WithoutWrappingQuotes(WithoutBold(WithoutHeaderRuns(raw))))
           /\ \A i \in 1..Len(content) : content[i] # "**"

\* a response with a bold word has been cleaned
C22_Witness ==
    /\ stage = "cleaned"
    /\ raw = <<"**", "a", "**", "a">>
    /\ content = <<"a", "a">>

\* an entry whose future is pending is in the queue behind a working drain
\* loop, or it is the entry the drain loop is working on
NoStrandedEntry ==
    /\ (Len(queue) > 0 \/ isProcessing)
          => /\ isProcessing
             /\ Cardinality({ e \in Ids : entries[e].st \in {"held", "calling", "backoff"} }) = 1
    /\ \A e \in Ids :
          /\ entries[e].st = "queued" <=> (\E i \in 1..Len(queue) : queue[i] = e)
          /\ entries[e].fut = "pending"
                <=> entries[e].st \in {"queued", "held", "calling", "backoff"}

\* a step that enqueues: the futures it returns are pending; while a drain is
\* active it only appends to the queue, and while idle it starts a drain
\* with its first entry
EnqueueStep ==
    Len(entries') > Len(entries) =>
        LET new == [i \in 1..(Len(entries') - Len(entries)) |-> Len(entries) + i]
        IN /\ \A i \in DOMAIN new : entries'[new[i]].fut = "pending"
           /\ IF isProcessing
              THEN /\ queue' = queue \o new
                   /\ \A e \in 1..Len(entries) : entries'[e] = entries[e]
              ELSE /\ isProcessing'
                   /\ entries'[new[1]].st \in {"held", "calling"}
                   /\ queue' = Tail(new)

\* C23: no entry is stranded: enqueue returns a pending future, appends to
\* the queue while a drain is active and starts a drain while idle; a
\* non-empty queue always has an active drain loop; and every entry enqueued
\* is eventually settled, by its action or by clearQueue, when timers fire
\* and every call returns.
C23_NoEntryStranded ==
    /\ []NoStrandedEntry
    /\ [][EnqueueStep]_vars
    /\ \A e \in 1..LiveEntries :
          (Len(entries) >= e /\ entries[e].fut = "pending")
              ~> (Len(entries) >= e /\ entries[e].fut # "pending")

\* an entry enqueued behind an active drain has been executed and settled
C23_Witness ==
    \E e \in Ids :
        /\ e > 1 /\ entries[e].st = "done" /\ entries[e].calls > 0
        /\ \E k \in 1..Len(releases) :
              /\ releases[k][1] = e
              /\ releases[k][2] > StartTime

\* C24: an entry is released to execution at most once and never put back in
\* the queue, and its future is settled exactly once: by the outcome of its
\* action if the action was invoked, by 'Queue cleared' if it was not; no
\* entry is both executed and cancelled.
C24_ExecutedOnceSettledOnce ==
    \A e \in Ids :
        LET en == entries[e]
            inQueue == { i \in 1..Len(queue) : queue[i] = e }
            inReleases == { k \in 1..Len(releases) : releases[k][1] = e }
        IN /\ Cardinality(inReleases) <= 1
           /\ Cardinality(inQueue) <= 1
           /\ inReleases # {} => inQueue = {}
           /\ en.calls > 0 <=> inReleases # {}
           /\ en.settles = (IF en.fut = "pending" THEN 0 ELSE 1)
           /\ en.fut # "pending"
                 => \/ /\ en.st = "done" /\ inReleases # {}
                       /\ en.val = Last(en.outs).val
                       /\ en.fut = (IF Last(en.outs).ok THEN "resolved" ELSE "rejected")
                    \/ /\ en.st = "cleared" /\ inReleases = {} /\ inQueue = {}
                       /\ en.val = QueueCleared /\ en.fut = "rejected"

\* one entry settled by its action and another one by clearQueue
C24_Witness ==
    \E d, e \in Ids :
        /\ entries[d].st = "done" /\ entries[d].settles = 1 /\ entries[d].calls > 0
        /\ entries[e].st = "cleared" /\ entries[e].settles = 1

\* C25: a job carries a non-empty result text only when it is Completed.
C25_ResultOnlyWhenCompleted ==
    \A u \in Urls :
        prompts[u].prompt # EmptyText => prompts[u].status = "completed"

\* the snapshot updateProgress publishes for c of n jobs
Snapshot(c, n) == [current |-> c, total |-> n, percentage |-> Round(100 * c, n)]

\* the counter of every run is the number of its jobs that reached a terminal
\* state, between 0 and the number N of its references, and the published
\* progress is the snapshot of a run
ProgressCounts ==
    /\ \A r \in RunIds :
          /\ runs[r].total = Len(runs[r].urls)
          /\ Cardinality(EntriesOf(r)) = runs[r].total
          /\ runs[r].completedCount = Cardinality({ e \in EntriesOf(r) : Settled(e) })
          /\ 0 <= runs[r].completedCount /\ runs[r].completedCount <= runs[r].total
    /\ runs # <<>>
          => \E r \in RunIds : progress = Snapshot(runs[r].completedCount, runs[r].total)

\* the entries of run r whose futures a step settles
SettledNow(r) ==
    { e \in 1..Len(entries) :
        entries[e].run = r /\ entries[e].fut = "pending" /\ entries'[e].fut # "pending" }

\* a step that starts a run publishes {0, N, 0}; a step in which jobs of a run
\* reach a terminal state raises the run's counter by their number and
\* publishes the run's snapshot; no counter ever decreases
ProgressStep ==
    /\ Len(runs') > Len(runs)
          => progress' = [current |-> 0, total |-> Len(runs'[Len(runs')].urls),
                          percentage |-> 0]
    /\ \A r \in 1..Len(runs) :
          /\ runs'[r].completedCount = runs[r].completedCount + Cardinality(SettledNow(r))
          /\ (/\ SettledNow(r) # {}
              /\ \A q \in 1..Len(runs) : q # r => SettledNow(q) = {})
                => progress' = Snapshot(runs'[r].completedCount, runs[r].total)

\* C26: within one generatePrompts call over N references progress starts at
\* {0, N, 0}; each terminal transition of one of its jobs raises its counter
\* by one in the same step and publishes current = counter, total = N,
\* percentage = round(100 * counter / N); the counter is the number of the
\* call's jobs that reached a terminal state, within 0..N, and never decreases.
C26_Progress == []ProgressCounts /\ [][ProgressStep]_vars

\* one of the two jobs of a run has reached a terminal state
C26_Witness ==
    \E r \in RunIds :
        /\ runs[r].total = 2 /\ runs[r].completedCount = 1
        /\ progress = [current |-> 1, total |-> 2, percentage |-> 50]

\* the adapter invocations made through the queue: <<entry, number of the call>>
Invocations ==
    { <<e, i>> : e \in Ids, i \in 1..MaxRetriesBound + 2 } \cap
    { p \in Ids \X (1..MaxRetriesBound + 2) : p[2] <= Len(entries[p[1]].callTimes) }
InvokedAt(p) == entries[p[1]].callTimes[p[2]]

\* C27: any two adapter invocations made through the queue, first attempts
\* and retry attempts alike, start at least the minimum spacing apart.
C27_AllCallsSpaced ==
    \A p, q \in Invocations :
        (p # q /\ InvokedAt(p) <= InvokedAt(q))
            => InvokedAt(q) - InvokedAt(p) >= MinDelay(entries[q[1]].cfg)

\* C28 as stated: the jobs of a batch reach their terminal states in the order
\* they were submitted: a job has settled only if every job submitted before
\* it has.
C28_SettleInSubmissionOrder ==
    \A d, e \in Ids : (d < e /\ Settled(e)) => Settled(d)

\* C28: an entry's future is settled, after all of its retries, before the
\* action of the next entry is started, so the jobs whose requests were
\* dispatched reach their terminal states in the order they were submitted; a
\* job that clearQueue cancelled can reach its terminal state before a job
\* submitted earlier, and that job is then the one the drain loop is at.
C28_SettleInDispatchOrder ==
    /\ \A k \in 1..(Len(releases) - 1) :
          /\ releases[k][1] < releases[k + 1][1]
          /\ entries[releases[k][1]].st = "done"
    /\ \A d, e \in Ids :
          (d < e /\ Settled(e) /\ ~Settled(d))
              => /\ entries[e].st = "cleared"
                 /\ entries[d].st \in {"held", "calling", "backoff"}

\* both jobs of a batch were executed, the first one with a retry, and the
\* second one was released once the first one had settled
C28_Witness ==
    /\ Len(releases) = 2
    /\ entries[1].run = entries[2].run
    /\ entries[1].st = "done" /\ entries[1].calls > 1
    /\ entries[2].st = "done" /\ entries[2].calls > 0
    /\ releases[2][2] >= Last(entries[1].callTimes)

\* a step of a request that a generatePrompts call made for a reference whose
\* job was Completed: the call itself, a retry notice or the settling of the
\* request; it leaves a Completed job as it is
ResubmissionStep ==
    \A e \in 1..Len(entries') :
        LET u == entries'[e].url
        IN (/\ entries'[e].wasCompleted
            /\ (e > Len(entries) \/ entries'[e] # entries[e])
            /\ prompts[u].status = "completed")
               => prompts'[u] = prompts[u]

\* C29: Completed is absorbing under resubmission: no generatePrompts call
\* made for a reference whose job is Completed, and no request of such a call,
\* changes the state of the job or its stored result.
C29_CompletedAbsorbing == [][ResubmissionStep]_vars

\* C30: the URL list never holds the same reference twice.
C30_UrlsDistinct ==
    \A i, j \in 1..Len(urlList) : i # j => urlList[i] # urlList[j]

====
